---- MODULE Spec2Model ----
(***************************************************************************)
(* Printer discovery and capability retrieval over winspool:               *)
(* enum_printers, get_default_printer, free, get_device_capabilities and   *)
(* the PlatformDeviceCapabilitiesGetters implementation of                 *)
(* src/windows/winspool/info.rs, with DeviceCapabilities of                *)
(* src/common/base/device_capabilities.rs.                                 *)
(*                                                                         *)
(* The native spooler (EnumPrintersW, GetDefaultPrinterW,                  *)
(* DeviceCapabilitiesW) is the environment: its state is part of the model *)
(* and may change between any two native calls.  Every native call is one  *)
(* step of the calling thread.                                             *)
(***************************************************************************)
EXTENDS Integers, Sequences, FiniteSets, TLC

\* ------------------------------------------------------------------ bounds
\* The largest bin count the driver reports.
MaxBins == 2
\* The most buffers the allocator hands out to the capability probes of one run.
MaxBufs == 4
\* The most printers the spooler directory holds.
MaxPrinters == 2

\* ------------------------------------------------------- program constants
SlotWidth == 24
IdStride == 2
WcharSize == 2
DC_BINS == 6
DC_BINNAMES == 12
MaxAttempts == 2
StructBytes == 136

Null == 0
Sentinel == 0 - 1
Threads == {1, 2}

\* ------------------------------------------------------------- text units
\* Text units: 0 is the terminator, 1 and 2 are letters, 9 is whatever lies
\* in memory that the program does not own.
Terminator == 0
GarbageUnit == 9

Names == {<<1, 1>>, <<1, 2>>, <<2, 1>>}

PadSlot(s) == s \o [i \in 1..(SlotWidth - Len(s)) |-> Terminator]
FullSlot == [i \in 1..SlotWidth |-> 1]
SlotVals == {PadSlot(<<>>), PadSlot(<<1>>), FullSlot}

RECURSIVE Flatten(_)
Flatten(ss) == IF ss = <<>> THEN <<>> ELSE Head(ss) \o Flatten(Tail(ss))

Take(s, n) == IF Len(s) <= n THEN s ELSE SubSeq(s, 1, n)

\* ------------------------------------------------------------ native state
\* The driver's name table: unsupported, or up to MaxBins slots drawn from
\* `palette`.
SlotSeqs(palette) == UNION {[1..n -> palette] : n \in 0..MaxBins}
DevNameStates(palette) ==
    {[ok |-> FALSE, slots |-> <<>>]}
        \cup {[ok |-> TRUE, slots |-> s] : s \in SlotSeqs(palette)}

VARIABLES
    directory,      \* spooler: the installed printers' names, in native order
    defaultPrinter, \* spooler: the default printer's name, <<>> when none
    devBins,        \* driver: the answer to DC_BINS, -1 when unsupported
    devNames,       \* driver: the answer to DC_BINNAMES
    heap,           \* the buffers of alloc_s, by pointer
    pc,             \* per thread: the statement it is at
    op,             \* per thread: the public function it called last
    en,             \* per thread: locals of enum_printers / get_default_printer
    pr,             \* per thread: locals of get_device_capabilities
    res,            \* per thread: what the last call returned
    held            \* per thread: the set of slices the caller still holds

vars == <<directory, defaultPrinter, devBins, devNames, heap, pc, op, en, pr, res, held>>
spoolerVars == <<directory, defaultPrinter>>
driverVars == <<devBins, devNames>>

\* ----------------------------------------------------- buffer lifecycle
\* heap.live maps the pointers of the buffers now allocated to their content;
\* heap.frees counts, for every pointer alloc_s ever returned, the dealloc_s
\* calls made on it.  Pointers are handed out in order and never reused.
EmptyHeap == [live |-> <<>>, frees |-> <<>>]
NextPtr(h) == Len(h.frees) + 1
Live(h) == DOMAIN h.live

\* alloc_s::<T>(size): a fresh buffer of `size` bytes, uninitialised.
AllocS(h, t, size) ==
    [live |-> (NextPtr(h) :> [owner |-> t, size |-> size, filled |-> FALSE,
                              recs |-> <<>>, units |-> <<>>, overrun |-> FALSE])
              @@ h.live,
     frees |-> Append(h.frees, 0)]

\* dealloc_s::<T>(ptr): the buffer at ptr is released and what it held is
\* gone; a release of a pointer alloc_s returned is counted.
DeallocS(h, ptr) ==
    [live |-> [q \in Live(h) \ {ptr} |-> h.live[q]],
     frees |-> IF ptr \in DOMAIN h.frees THEN [h.frees EXCEPT ![ptr] = @ + 1]
               ELSE h.frees]

RECURSIVE DeallocAll(_, _)
DeallocAll(h, ptrs) ==
    IF ptrs = <<>> THEN h ELSE DeallocAll(DeallocS(h, Head(ptrs)), Tail(ptrs))

\* --------------------------------------------------- DeviceCapabilitiesW
\* The count the driver returns for a capability, or the sentinel.
DeviceCapabilitiesW(kind) ==
    IF kind = DC_BINS THEN devBins
    ELSE IF devNames.ok THEN Len(devNames.slots) ELSE Sentinel

\* What the driver writes through pOutput into a buffer of `cap` units: all
\* it has; what does not fit lands past the buffer (overrun).
NativeWrite(h, ptr, written, cap) ==
    IF ptr \in Live(h)
    THEN [h EXCEPT !.live[ptr].filled = TRUE,
                   !.live[ptr].units = Take(written, cap),
                   !.live[ptr].overrun = Len(written) > cap]
    ELSE h

\* ------------------------------------------------------ wchar_t_to_string
\* The units from position `off` (1-based) up to the first terminator.
RECURSIVE ScanLen(_, _)
ScanLen(mem, off) ==
    IF off > Len(mem) \/ mem[off] = Terminator THEN 0 ELSE 1 + ScanLen(mem, off + 1)

\* wchar_t_to_string(ptr): reads from ptr to the first terminator, wherever
\* that is; `past` is what lies beyond the buffer when no terminator is met.
WcharToString(mem, off, past) ==
    LET n == ScanLen(mem, off)
    IN  SubSeq(mem, off, off + n - 1) \o (IF off + n > Len(mem) THEN past ELSE <<>>)

PastBuffer == {<<>>, <<GarbageUnit>>}

\* --------------------------------------------------------- initial state
NoCaps == [some |-> FALSE, bin_count |-> 0, bin_names |-> <<>>]
NoSlice == [ptr |-> Null, len |-> 0]

InitPr == [bin_count |-> 0, bin_ids_ptr |-> Null, bin_names_ptr |-> Null,
           calls |-> <<>>, allocs |-> <<>>, frees |-> <<>>, ret |-> NoCaps,
           stage |-> "none", first |-> 0]

InitEn == [name_ptr |-> "null", name_mark |-> 0, bytes_needed |-> 0,
           count_printers |-> 0, buffer_ptr |-> Null, iter |-> 0, calls |-> <<>>,
           allocs |-> <<>>, idx |-> 0, name_size |-> 0, defIds |-> <<>>]

NoRecord == [some |-> FALSE, name |-> <<>>]

\* What the caller keeps of the call before the one it is making.
NoPrev == [op |-> "none", caps |-> NoCaps, bin_count |-> 0, bin_names |-> <<>>]

InitRes == [slice |-> NoSlice, default |-> NoRecord, caps |-> NoCaps, bin_count |-> 0,
            bin_names |-> <<>>, dc |-> [bin_count |-> 0, bin_names |-> <<>>],
            prev |-> NoPrev]

InitLocal ==
    /\ heap = EmptyHeap
    /\ pc = [t \in Threads |-> "idle"]
    /\ op = [t \in Threads |-> "none"]
    /\ en = [t \in Threads |-> InitEn]
    /\ pr = [t \in Threads |-> InitPr]
    /\ res = [t \in Threads |-> InitRes]
    /\ held = [t \in Threads |-> {}]

\* ------------------------------------------------ get_device_capabilities
\* A count test that takes zero, not the sentinel, for "no bins".
CountIsZero(r) == r = 0

\* info.rs:181  if bin_count == -1 { return None; }
CountIsSentinel(r) == r = Sentinel

\* An id test that only looks for the sentinel.
IdsFailed(r, bin_count) == r = Sentinel

\* info.rs:198  if bin_count_result != bin_count { dealloc; return None; }
IdsMismatch(r, bin_count) == r # bin_count

\* info.rs:199  the buffers released on the id-count mismatch path
MismatchFrees(p) == <<p.bin_ids_ptr>>

\* info.rs:220  if bin_names_result == bin_count { decode every slot }
NamesMatch(r, bin_count) == r = bin_count

\* A clean-up that names the id buffer twice.
CleanUpIdsTwice(p) == <<p.bin_ids_ptr, p.bin_ids_ptr>>

\* info.rs:230-231  the buffers released on the final path
CleanUpFrees(p) == <<p.bin_ids_ptr, p.bin_names_ptr>>

\* info.rs:221-226  one decoded name per slot offset i * 24
DecodeBinNames(mem, bin_count, past) ==
    [i \in 1..bin_count |-> WcharToString(mem, (i - 1) * SlotWidth + 1, past)]

StartProbe(t, stage, first) ==
    /\ pr' = [pr EXCEPT ![t] = [InitPr EXCEPT !.stage = stage, !.first = first]]
    /\ pc' = [pc EXCEPT ![t] = "probe_count"]

\* Step 1 (info.rs:177-187): the count query, the sentinel return, and the
\* allocation of the bin-id buffer.
ProbeCount(t) ==
    /\ pc[t] = "probe_count"
    /\ LET r == DeviceCapabilitiesW(DC_BINS)
           call == [kind |-> DC_BINS, out |-> Null, result |-> r]
       IN  IF CountIsSentinel(r)
           THEN /\ pr' = [pr EXCEPT ![t].calls = Append(@, call), ![t].ret = NoCaps]
                /\ pc' = [pc EXCEPT ![t] = "probe_ret"]
                /\ heap' = heap
           ELSE /\ heap' = AllocS(heap, t, r * IdStride)
                /\ pr' = [pr EXCEPT ![t].calls = Append(@, call),
                                    ![t].bin_count = r,
                                    ![t].bin_ids_ptr = NextPtr(heap),
                                    ![t].allocs = Append(@, NextPtr(heap))]
                /\ pc' = [pc EXCEPT ![t] = "probe_ids"]
    /\ UNCHANGED <<spoolerVars, driverVars, op, en, res, held>>

\* A native write past the end of the caller's buffer damages the heap: the
\* call either goes on as if nothing had happened or the process faults.
AfterWrite(h, ptr) ==
    IF ptr \in Live(h) /\ h.live[ptr].overrun THEN {"goes on", "faults"}
    ELSE {"goes on"}

\* Step 2 (info.rs:188-207): the bin-id query into the id buffer, the
\* mismatch return, and the allocation of the bin-name buffer.
ProbeIds(t) ==
    /\ pc[t] = "probe_ids"
    /\ LET p == pr[t]
           r == DeviceCapabilitiesW(DC_BINS)
           call == [kind |-> DC_BINS, out |-> p.bin_ids_ptr, result |-> r]
           ids == IF r = Sentinel THEN <<>> ELSE [i \in 1..r |-> i]
           h1 == NativeWrite(heap, p.bin_ids_ptr, ids, p.bin_count)
       IN  \E then \in AfterWrite(h1, p.bin_ids_ptr) :
           IF then = "faults"
           THEN /\ heap' = h1
                /\ pr' = [pr EXCEPT ![t].calls = Append(@, call)]
                /\ pc' = [pc EXCEPT ![t] = "aborted"]
           ELSE IF IdsMismatch(r, p.bin_count)
           THEN /\ heap' = DeallocAll(h1, MismatchFrees(p))
                /\ pr' = [pr EXCEPT ![t].calls = Append(@, call),
                                    ![t].frees = @ \o MismatchFrees(p),
                                    ![t].ret = NoCaps]
                /\ pc' = [pc EXCEPT ![t] = "probe_ret"]
           ELSE /\ heap' = AllocS(h1, t, p.bin_count * SlotWidth * WcharSize)
                /\ pr' = [pr EXCEPT ![t].calls = Append(@, call),
                                    ![t].bin_names_ptr = NextPtr(heap),
                                    ![t].allocs = Append(@, NextPtr(heap))]
                /\ pc' = [pc EXCEPT ![t] = "probe_names"]
    /\ UNCHANGED <<spoolerVars, driverVars, op, en, res, held>>

\* Step 3 (info.rs:209-236): the bin-name query, the decoding, the clean-up
\* and the Some(..) result.
ProbeNames(t) ==
    /\ pc[t] = "probe_names"
    /\ \E past \in PastBuffer :
       LET p == pr[t]
           r == DeviceCapabilitiesW(DC_BINNAMES)
           call == [kind |-> DC_BINNAMES, out |-> p.bin_names_ptr, result |-> r]
           h1 == NativeWrite(heap, p.bin_names_ptr, Flatten(devNames.slots),
                             p.bin_count * SlotWidth)
           bin_names == IF NamesMatch(r, p.bin_count)
                        THEN DecodeBinNames(h1.live[p.bin_names_ptr].units, p.bin_count, past)
                        ELSE <<>>
       IN  \E then \in AfterWrite(h1, p.bin_names_ptr) :
           IF then = "faults"
           THEN /\ heap' = h1
                /\ pr' = [pr EXCEPT ![t].calls = Append(@, call)]
                /\ pc' = [pc EXCEPT ![t] = "aborted"]
           ELSE /\ heap' = DeallocAll(h1, CleanUpFrees(p))
                /\ pr' = [pr EXCEPT ![t].calls = Append(@, call),
                                    ![t].frees = @ \o CleanUpFrees(p),
                                    ![t].ret = [some |-> TRUE, bin_count |-> p.bin_count,
                                                bin_names |-> bin_names]]
                /\ pc' = [pc EXCEPT ![t] = "probe_ret"]
    /\ UNCHANGED <<spoolerVars, driverVars, op, en, res, held>>

\* ----------------------------- impl PlatformDeviceCapabilitiesGetters
\* info.rs:240-244  .map(|c| c.bin_count).unwrap_or(0)
UnwrapBinCount(ret) == IF ret.some THEN ret.bin_count ELSE 0

\* info.rs:245-249  .map(|c| c.bin_names).unwrap_or_default()
UnwrapBinNames(ret) == IF ret.some THEN ret.bin_names ELSE <<>>

\* The return of get_device_capabilities to whoever called it: the caller
\* itself, a getter, or from_platform_device_capabilities_getters
\* (device_capabilities.rs:10-19), which calls get_bin_count, then
\* get_bin_names, and assembles the two answers.
ProbeReturn(t) ==
    /\ pc[t] = "probe_ret"
    /\ LET ret == pr[t].ret
       IN  CASE op[t] = "get_device_capabilities" ->
                  /\ res' = [res EXCEPT ![t].caps = ret]
                  /\ pc' = [pc EXCEPT ![t] = "idle"]
                  /\ pr' = pr
             [] op[t] = "get_bin_count" ->
                  /\ res' = [res EXCEPT ![t].bin_count = UnwrapBinCount(ret)]
                  /\ pc' = [pc EXCEPT ![t] = "idle"]
                  /\ pr' = pr
             [] op[t] = "get_bin_names" ->
                  /\ res' = [res EXCEPT ![t].bin_names = UnwrapBinNames(ret)]
                  /\ pc' = [pc EXCEPT ![t] = "idle"]
                  /\ pr' = pr
             [] op[t] = "from_getters" /\ pr[t].stage = "bin_count" ->
                  /\ res' = [res EXCEPT ![t].bin_count = UnwrapBinCount(ret)]
                  /\ StartProbe(t, "bin_names", IF pr[t].calls = <<>> THEN 0
                                                 ELSE pr[t].calls[1].result)
             [] op[t] = "from_getters" /\ pr[t].stage = "bin_names" ->
                  /\ res' = [res EXCEPT ![t].bin_names = UnwrapBinNames(ret),
                                        ![t].dc = [bin_count |-> res[t].bin_count,
                                                   bin_names |-> UnwrapBinNames(ret)]]
                  /\ pc' = [pc EXCEPT ![t] = "idle"]
                  /\ pr' = pr
    /\ UNCHANGED <<spoolerVars, driverVars, heap, op, en, held>>

\* ------------------------------------------------------------ spooler
\* The bytes EnumPrintersW needs for a list of records at level 2: each
\* PRINTER_INFO_2W and, behind the array, its strings.
RECURSIVE NeededBytes(_)
NeededBytes(recs) ==
    IF recs = <<>> THEN 0
    ELSE StructBytes + WcharSize * (Len(Head(recs)) + 1) + NeededBytes(Tail(recs))

\* The name the caller filters by, when it passes one.
FilterName == <<1, 1>>

\* What the Name argument points at when a call reads it.  A null Name points
\* at nothing.  A Name pointer into released memory points at the string as
\* it was left, at memory the allocator has since handed out as one of the
\* buffers allocated after the release (pointers from name_mark on), or at
\* memory something else now uses.
NullName == [at |-> "null", buf |-> Null]
NameRefs(e, h) ==
    IF e.name_ptr = "null" THEN {NullName}
    ELSE {[at |-> "string", buf |-> Null], [at |-> "elsewhere", buf |-> Null]}
            \cup {[at |-> "buffer", buf |-> b] : b \in {q \in Live(h) : q >= e.name_mark}}

\* The records a call enumerates: all of them under a null Name, those of
\* that name otherwise; memory that no longer holds the string reads as
\* some other name.
Matching(f) == LET Is(n) == n = f IN SelectSeq(directory, Is)
EnumViews(ref) ==
    IF ref.at = "null" THEN {directory}
    ELSE IF ref.at = "string" THEN {Matching(FilterName)}
    ELSE {Matching(<<GarbageUnit>>)}

\* EnumPrintersW(.., pPrinterEnum, cbBuf, &needed, &returned): the outcomes
\* of one call.  It succeeds when the buffer holds the records, fails with
\* the size it needs when it does not, and may fail outright (spooler not
\* reachable), leaving the size zero or as it was passed.
EnumPrintersW(view, cbBuf) ==
    {IF cbBuf >= NeededBytes(view)
     THEN [result |-> 1, needed |-> NeededBytes(view), returned |-> Len(view),
           recs |-> view]
     ELSE [result |-> 0, needed |-> NeededBytes(view), returned |-> 0,
           recs |-> <<>>]}
    \cup {[result |-> 0, needed |-> n, returned |-> 0, recs |-> <<>>] : n \in {0, cbBuf}}

\* What a successful call leaves in the caller's buffer.
NativeFill(h, ptr, o) ==
    IF o.result # 0 /\ ptr \in Live(h)
    THEN [h EXCEPT !.live[ptr].filled = TRUE, !.live[ptr].recs = o.recs]
    ELSE h

\* The first text unit a pointer to `s` (terminated) reads.
FirstUnit(s) == IF s = <<>> THEN Terminator ELSE Head(s)

\* ---------------------------------------------------------- enum_printers
\* info.rs:124-128  the Name argument: null, or the pointer of a wide string
\* that is dropped at the end of the let statement.
NamePtr(name) == IF name.some THEN "released" ELSE "null"

\* info.rs:143  if result != 0 || bytes_needed == 0 { break; }
EnumBreak(result, bytes_needed) == result # 0 \/ bytes_needed = 0

\* A loop that makes one pass more.
EnumLoopEndsLate(iter) == iter >= MaxAttempts + 1

\* info.rs:130  for _ in 0..2
EnumLoopEnds(iter) == iter >= MaxAttempts

\* One pass of the loop (info.rs:130-148): the native call, the break test
\* and the allocation for the next pass.
EnumCall(t) ==
    /\ pc[t] = "enum_call"
    /\ \E ref \in NameRefs(en[t], heap) :
       \E view \in EnumViews(ref) :
       \E o \in EnumPrintersW(view, en[t].bytes_needed) :
       LET e == en[t]
           call == [buf |-> e.buffer_ptr, cbBuf |-> e.bytes_needed,
                    name_ptr |-> e.name_ptr, name_ref |-> ref, result |-> o.result,
                    needed |-> o.needed, returned |-> o.returned]
           h1 == NativeFill(heap, e.buffer_ptr, o)
           e1 == [e EXCEPT !.calls = Append(@, call), !.bytes_needed = o.needed,
                           !.count_printers = o.returned]
       IN  IF EnumBreak(o.result, o.needed)
           THEN /\ heap' = h1
                /\ en' = [en EXCEPT ![t] = e1]
                /\ pc' = [pc EXCEPT ![t] = "enum_ret"]
           ELSE /\ heap' = AllocS(h1, t, o.needed)
                /\ en' = [en EXCEPT ![t] = [e1 EXCEPT !.buffer_ptr = NextPtr(h1),
                                                      !.allocs = Append(@, NextPtr(h1)),
                                                      !.iter = @ + 1]]
                /\ pc' = [pc EXCEPT ![t] = IF EnumLoopEnds(e.iter + 1)
                                           THEN "enum_ret" ELSE "enum_call"]
    /\ UNCHANGED <<spoolerVars, driverVars, op, pr, res, held>>

\* info.rs:150  slice::from_raw_parts(buffer_ptr, count_printers).  A null
\* buffer_ptr breaks the function's safety contract: the build either
\* yields the empty slice or stops at the precondition check.
FromRawParts(ptr, len) ==
    {[ok |-> TRUE, slice |-> [ptr |-> ptr, len |-> len]]}
    \cup (IF ptr = Null THEN {[ok |-> FALSE, slice |-> NoSlice]} ELSE {})

\* The return of enum_printers (info.rs:150), to the caller or to
\* get_default_printer (info.rs:157), whose find() starts at the first record.
EnumReturn(t) ==
    /\ pc[t] = "enum_ret"
    /\ \E r \in FromRawParts(en[t].buffer_ptr, en[t].count_printers) :
       IF ~r.ok
       THEN /\ pc' = [pc EXCEPT ![t] = "aborted"]
            /\ UNCHANGED <<res, held, en>>
       ELSE /\ res' = [res EXCEPT ![t].slice = r.slice]
            /\ IF op[t] = "enum_printers"
               THEN /\ held' = [held EXCEPT ![t] = @ \cup {r.slice}]
                    /\ pc' = [pc EXCEPT ![t] = "idle"]
                    /\ en' = en
               ELSE /\ held' = held
                    /\ en' = [en EXCEPT ![t].idx = 1]
                    /\ pc' = [pc EXCEPT ![t] = IF r.slice.len = 0 THEN "idle"
                                               ELSE "isdef_size"]
    /\ UNCHANGED <<spoolerVars, driverVars, heap, op, pr>>

\* ------------------------------------- get_is_default, get_default_printer
\* GetDefaultPrinterW(pszBuffer, &size): the size it reports, terminator
\* included; untouched when there is no default printer.
DefaultSize(size) == IF defaultPrinter = <<>> THEN size ELSE Len(defaultPrinter) + 1

\* The identifier the fill call writes into a zeroed buffer of `size` units:
\* the default printer's name if it fits, nothing otherwise.
DefaultWritten(size) ==
    IF defaultPrinter # <<>> /\ Len(defaultPrinter) + 1 <= size
    THEN defaultPrinter ELSE <<>>

\* info.rs:79  the size query of get_is_default.
IsDefaultSize(t) ==
    /\ pc[t] = "isdef_size"
    /\ en' = [en EXCEPT ![t].name_size = DefaultSize(0)]
    /\ pc' = [pc EXCEPT ![t] = "isdef_fill"]
    /\ UNCHANGED <<spoolerVars, driverVars, heap, op, pr, res, held>>

\* info.rs:82  *self.pPrinterName == *buffer.as_ptr()
SameIdentifier(recName, bufFirst) == FirstUnit(recName) = bufFirst

\* info.rs:80-82 and the find() of info.rs:157: the fill query into
\* vec![0; name_size], the comparison, and the step to the next record.  With
\* name_size = 0 the vec is empty and its pointer is the dangling address of
\* an empty allocation, which is not mapped: the read faults.
IsDefaultFill(t) ==
    /\ pc[t] = "isdef_fill"
    /\ LET e == en[t]
           sl == res[t].slice
           rec == heap.live[sl.ptr].recs[e.idx]
           id == DefaultWritten(e.name_size)
           same == SameIdentifier(rec, FirstUnit(id))
       IN  IF e.name_size = 0
           THEN /\ pc' = [pc EXCEPT ![t] = "aborted"]
                /\ UNCHANGED <<en, res>>
           ELSE /\ en' = [en EXCEPT ![t].defIds = Append(@, id),
                                    ![t].idx = IF same THEN @ ELSE @ + 1]
                /\ IF same
                   THEN /\ res' = [res EXCEPT ![t].default =
                                                  [some |-> TRUE, name |-> rec]]
                        /\ pc' = [pc EXCEPT ![t] = "idle"]
                   ELSE /\ res' = res
                        /\ pc' = [pc EXCEPT ![t] = IF e.idx + 1 > sl.len THEN "idle"
                                                   ELSE "isdef_size"]
    /\ UNCHANGED <<spoolerVars, driverVars, heap, op, pr, held>>

\* ------------------------------------------------------------------- free
\* info.rs:164  if printers.len() > 0 { dealloc_s(printers.as_ptr()) }
FreeReleases(slice) == IF slice.len > 0 THEN <<slice.ptr>> ELSE <<>>

\* free(printers) (info.rs:163-167) on a slice the caller holds.
Free(t) ==
    /\ pc[t] = "idle"
    /\ \E sl \in held[t] :
       /\ heap' = DeallocAll(heap, FreeReleases(sl))
       /\ held' = [held EXCEPT ![t] = @ \ {sl}]
    /\ op' = [op EXCEPT ![t] = "free"]
    /\ res' = [res EXCEPT ![t] = InitRes]
    /\ UNCHANGED <<spoolerVars, driverVars, pc, en, pr>>

\* ------------------------------------------------------------- the caller
\* A call that may allocate `need` buffers starts only while the run's
\* allocation budget allows it.
CanStart(t, need, budget) == pc[t] = "idle" /\ Len(heap.frees) + need <= budget

CallProbe(t, f) ==
    /\ CanStart(t, IF f = "from_getters" THEN 4 ELSE 2, MaxBufs)
    /\ op' = [op EXCEPT ![t] = f]
    /\ res' = [res EXCEPT ![t] = InitRes]
    /\ StartProbe(t, IF f = "from_getters" THEN "bin_count" ELSE "none", 0)
    /\ UNCHANGED <<spoolerVars, driverVars, heap, en, held>>

\* The caller makes the capability call it has just made once more on the
\* same printer, keeping what the first call returned.
ProbeCalls == {"get_device_capabilities", "get_bin_count", "get_bin_names"}

CallAgain(t) ==
    /\ CanStart(t, 2, MaxBufs)
    /\ op[t] \in ProbeCalls
    /\ res[t].prev.op = "none"
    /\ res' = [res EXCEPT ![t] = [InitRes EXCEPT !.prev =
                   [op |-> op[t], caps |-> res[t].caps, bin_count |-> res[t].bin_count,
                    bin_names |-> res[t].bin_names]]]
    /\ StartProbe(t, "none", 0)
    /\ UNCHANGED <<spoolerVars, driverVars, heap, op, en, held>>

\* A run holds one enumeration per thread (enum_printers or
\* get_default_printer) and the free of what it returned.
CanEnumerate(t) == pc[t] = "idle" /\ op[t] = "none"

StartEnum(t, name) ==
    /\ en' = [en EXCEPT ![t] = [InitEn EXCEPT !.name_ptr = NamePtr(name),
                                              !.name_mark = IF name.some
                                                            THEN NextPtr(heap) ELSE 0]]
    /\ pc' = [pc EXCEPT ![t] = "enum_call"]
    /\ res' = [res EXCEPT ![t] = InitRes]

NameArgs == {[some |-> FALSE, s |-> <<>>], [some |-> TRUE, s |-> FilterName]}

\* enum_printers(name)
CallEnumPrinters(t) ==
    /\ CanEnumerate(t)
    /\ \E name \in NameArgs : StartEnum(t, name)
    /\ op' = [op EXCEPT ![t] = "enum_printers"]
    /\ UNCHANGED <<spoolerVars, driverVars, heap, pr, held>>

\* get_default_printer(): enum_printers(None), then find (info.rs:157)
CallGetDefaultPrinter(t) ==
    /\ CanEnumerate(t)
    /\ StartEnum(t, [some |-> FALSE, s |-> <<>>])
    /\ op' = [op EXCEPT ![t] = "get_default_printer"]
    /\ UNCHANGED <<spoolerVars, driverVars, heap, pr, held>>

CallGetDeviceCapabilities(t) == CallProbe(t, "get_device_capabilities")
CallGetBinCount(t) == CallProbe(t, "get_bin_count")
CallGetBinNames(t) == CallProbe(t, "get_bin_names")
CallFromGetters(t) == CallProbe(t, "from_getters")

\* ------------------------------------------------------------- the driver
\* The driver's answers change one step at a time (a tray is added or
\* removed, the capability appears or disappears); any number of such steps
\* may fall between two native calls.
DriverChangeBins ==
    /\ \E b \in {devBins - 1, devBins + 1} \cap (Sentinel..MaxBins) : devBins' = b
    /\ UNCHANGED <<spoolerVars, devNames, heap, pc, op, en, pr, res, held>>

NameSteps(n, palette) ==
    IF ~n.ok THEN {[ok |-> TRUE, slots |-> <<>>]}
    ELSE {[ok |-> TRUE, slots |-> Append(n.slots, v)] : 
             v \in IF Len(n.slots) < MaxBins THEN palette ELSE {}}
         \cup (IF n.slots = <<>> THEN {[ok |-> FALSE, slots |-> <<>>]}
               ELSE {[ok |-> TRUE, slots |-> SubSeq(n.slots, 1, Len(n.slots) - 1)]})

DriverChangeNames(palette) ==
    /\ \E n \in NameSteps(devNames, palette) : devNames' = n
    /\ UNCHANGED <<spoolerVars, devBins, heap, pc, op, en, pr, res, held>>

\* -------------------------------------------------- capability probing
\* The slot contents the driver uses here: a terminated name and a slot
\* filled to its last unit.
ProbeSlots == {PadSlot(<<1>>), FullSlot}

InitProbe ==
    /\ directory = <<>>
    /\ defaultPrinter = <<>>
    /\ devBins \in Sentinel..MaxBins
    /\ devNames \in DevNameStates(ProbeSlots)
    /\ InitLocal

NextProbe ==
    \/ CallGetDeviceCapabilities(1)
    \/ CallGetBinCount(1)
    \/ CallGetBinNames(1)
    \/ CallFromGetters(1)
    \/ ProbeCount(1)
    \/ ProbeIds(1)
    \/ ProbeNames(1)
    \/ ProbeReturn(1)
    \/ DriverChangeBins
    \/ DriverChangeNames(ProbeSlots)

SpecProbe == InitProbe /\ [][NextProbe]_vars

\* ----------------------------------------- probing an unchanged device
\* The driver's answers are any, and stay as they are.
NextIdem ==
    \/ CallGetDeviceCapabilities(1)
    \/ CallGetBinCount(1)
    \/ CallGetBinNames(1)
    \/ CallAgain(1)
    \/ ProbeCount(1)
    \/ ProbeIds(1)
    \/ ProbeNames(1)
    \/ ProbeReturn(1)

SpecIdem == InitProbe /\ [][NextIdem]_vars

\* ------------------------------------------------------------ the spooler
\* A printer is installed, a printer is removed (a removed default leaves no
\* default), another default is chosen.
Installed == {directory[i] : i \in DOMAIN directory}
Without(s, i) == [j \in 1..(Len(s) - 1) |-> IF j < i THEN s[j] ELSE s[j + 1]]

SpoolerInstall ==
    /\ Len(directory) < MaxPrinters
    /\ \E n \in Names \ Installed : directory' = Append(directory, n)
    /\ UNCHANGED <<defaultPrinter, driverVars, heap, pc, op, en, pr, res, held>>

SpoolerRemove ==
    /\ \E i \in DOMAIN directory :
       /\ directory' = Without(directory, i)
       /\ defaultPrinter' = IF defaultPrinter = directory[i] THEN <<>>
                            ELSE defaultPrinter
    /\ UNCHANGED <<driverVars, heap, pc, op, en, pr, res, held>>

SpoolerSetDefault ==
    /\ \E n \in Installed \ {defaultPrinter} : defaultPrinter' = n
    /\ UNCHANGED <<directory, driverVars, heap, pc, op, en, pr, res, held>>

\* ----------------------------------------------------------- enumeration
Directories ==
    {d \in UNION {[1..n -> Names] : n \in 0..MaxPrinters} :
        \A i, j \in DOMAIN d : i # j => d[i] # d[j]}

InitEnum ==
    /\ directory \in Directories
    /\ defaultPrinter \in {<<>>} \cup Installed
    /\ devBins = Sentinel
    /\ devNames = [ok |-> FALSE, slots |-> <<>>]
    /\ InitLocal

NextEnum ==
    \/ CallEnumPrinters(1)
    \/ CallGetDefaultPrinter(1)
    \/ EnumCall(1)
    \/ EnumReturn(1)
    \/ IsDefaultSize(1)
    \/ IsDefaultFill(1)
    \/ Free(1)
    \/ SpoolerInstall
    \/ SpoolerRemove
    \/ SpoolerSetDefault

SpecEnum == InitEnum /\ [][NextEnum]_vars

\* ------------------------------------------------------- two threads
\* Two threads call enum_printers and get_device_capabilities against a
\* spooler and a driver that stay as they are, one call each; their steps
\* interleave in any order.
ConcSlots == {PadSlot(<<1>>)}
ConcDirectories == {d \in Directories : Len(d) <= 1}

InitConc ==
    /\ directory \in ConcDirectories
    /\ defaultPrinter = <<>>
    /\ devBins \in Sentinel..MaxBins
    /\ devNames \in DevNameStates(ConcSlots)
    /\ InitLocal

HasNotCalled(t) == op[t] = "none"

NextConc ==
    \E t \in Threads :
        \/ HasNotCalled(t) /\ CallEnumPrinters(t)
        \/ HasNotCalled(t) /\ CallGetDeviceCapabilities(t)
        \/ EnumCall(t)
        \/ EnumReturn(t)
        \/ Free(t)
        \/ ProbeCount(t)
        \/ ProbeIds(t)
        \/ ProbeNames(t)
        \/ ProbeReturn(t)

SpecConc == InitConc /\ [][NextConc]_vars

\* The calling thread is scheduled: a call that has started takes its next
\* step.  Nothing is assumed of the spooler or of what the caller does next.
ThreadStep(t) == EnumCall(t) \/ EnumReturn(t) \/ IsDefaultSize(t) \/ IsDefaultFill(t)
SpecEnumLive == SpecEnum /\ WF_vars(ThreadStep(1))

\* ======================================================= the properties
Returned(t, f) == pc[t] = "idle" /\ op[t] = f
Range(s) == {s[i] : i \in DOMAIN s}
NamesFit(c) == Len(c.bin_names) = 0 \/ Len(c.bin_names) = c.bin_count

\* C1: every DeviceCapabilities handed to a caller has no bin names or as
\* many as bin_count, whether get_device_capabilities returned it or
\* from_platform_device_capabilities_getters assembled it from get_bin_count
\* and get_bin_names.
C1_NamesEmptyOrBinCount ==
    \A t \in Threads :
        /\ Returned(t, "get_device_capabilities") /\ res[t].caps.some
              => NamesFit(res[t].caps)
        /\ Returned(t, "from_getters") => NamesFit(res[t].dc)

\* C5: a count query that returns 0 is the only native query of its probe.
C5_ZeroCountEndsProbe ==
    \A t \in Threads :
        pr[t].calls # <<>> /\ pr[t].calls[1].result = 0 => Len(pr[t].calls) = 1

\* C6: after a count query returning n >= 0 and an id query returning
\* another count, get_bin_count answers n and get_bin_names answers [].
IdMismatch(t) ==
    /\ Len(pr[t].calls) = 2
    /\ pr[t].calls[1].result >= 0
    /\ pr[t].calls[2].result # pr[t].calls[1].result

C6_IdMismatchKeepsCount ==
    \A t \in Threads :
        /\ Returned(t, "get_bin_count") /\ IdMismatch(t)
              => res[t].bin_count = pr[t].calls[1].result
        /\ Returned(t, "get_bin_names") /\ IdMismatch(t)
              => res[t].bin_names = <<>>

\* C7: a probe's native calls are the count query, then the id query, then
\* the name query, and the name query is made only after the id query of the
\* same probe returned bin_count; after a sentinel count or an id-count
\* mismatch there is no name query.
C7_NameQueryOnlyAfterMatchingIds ==
    \A t \in Threads :
        LET c == pr[t].calls
        IN  /\ Len(c) <= 3
            /\ Len(c) >= 1 => c[1].kind = DC_BINS /\ c[1].out = Null
            /\ Len(c) >= 2 => /\ c[2].kind = DC_BINS /\ c[2].out = pr[t].bin_ids_ptr
                              /\ c[1].result # Sentinel
            /\ Len(c) >= 3 => /\ c[3].kind = DC_BINNAMES
                              /\ c[3].out = pr[t].bin_names_ptr
                              /\ c[2].result = pr[t].bin_count
                              /\ c[2].result = c[1].result
            /\ \A i \in DOMAIN c : c[i].kind = DC_BINNAMES => i = 3

C7_Witness ==
    /\ pc[1] = "probe_ret"
    /\ Len(pr[1].calls) = 3
    /\ pr[1].calls[3].kind = DC_BINNAMES
    /\ pr[1].bin_count = 2

\* C8: after a count query that returns the sentinel -1 the probe makes no
\* other native query and allocates nothing, and the getters answer
\* bin_count = 0 and bin_names = [].
C8_SentinelGivesZeroAndEmpty ==
    \A t \in Threads :
        /\ pr[t].calls # <<>> /\ pr[t].calls[1].result = Sentinel
              => /\ Len(pr[t].calls) = 1
                 /\ pr[t].allocs = <<>>
                 /\ pr[t].frees = <<>>
                 /\ Returned(t, "get_bin_count") => res[t].bin_count = 0
                 /\ Returned(t, "get_bin_names") => res[t].bin_names = <<>>
        /\ op[t] = "from_getters" /\ pr[t].stage = "bin_names"
              /\ pr[t].first = Sentinel => res[t].bin_count = 0

C8_Witness ==
    /\ Returned(1, "get_bin_count")
    /\ pr[1].calls # <<>>
    /\ pr[1].calls[1].result = Sentinel
    /\ heap.frees = <<>>

\* C10: when get_device_capabilities returns, on whichever path, every
\* buffer it allocated has been released exactly once and it has released
\* nothing else.
C10_ProbeBuffersFreedOnce ==
    \A t \in Threads :
        pc[t] \in {"probe_ret", "idle"} =>
            /\ \A b \in Range(pr[t].allocs) : heap.frees[b] = 1 /\ b \notin Live(heap)
            /\ Range(pr[t].frees) = Range(pr[t].allocs)
            /\ Len(pr[t].frees) = Len(pr[t].allocs)

C10_Witness ==
    /\ pc[1] = "probe_ret"
    /\ Len(pr[1].allocs) = 2
    /\ pr[1].ret.some
    /\ pr[1].ret.bin_names # <<>>

\* C2: when a call of enum_printers made with an allocated buffer fails and
\* reports a size larger than that buffer, a buffer of the reported size is
\* allocated and a further native call is made with it.
EnumDone(t) == pc[t] \in {"enum_ret", "idle", "aborted", "isdef_size", "isdef_fill"}

C2_GrowthIsRetried ==
    \A t \in Threads :
        EnumDone(t) =>
            \A i \in DOMAIN en[t].calls :
                LET c == en[t].calls
                IN  c[i].buf # Null /\ c[i].result = 0 /\ c[i].needed > c[i].cbBuf
                       => /\ i < Len(c)
                          /\ c[i + 1].cbBuf = c[i].needed
                          /\ c[i + 1].buf # c[i].buf
                          /\ c[i + 1].buf \in Range(en[t].allocs)

\* C3: enum_printers returns either the whole record list that a successful
\* native call wrote into the buffer the returned sequence views, or an
\* error; never a view of a buffer no successful call has filled.
C3_ViewsOnlyAFilledBuffer ==
    \A t \in Threads :
        Returned(t, "enum_printers") =>
            LET sl == res[t].slice
                last == en[t].calls[Len(en[t].calls)]
            IN  /\ last.result # 0
                /\ sl.ptr # Null => /\ sl.ptr \in Live(heap)
                                    /\ heap.live[sl.ptr].filled
                                    /\ sl.len = Len(heap.live[sl.ptr].recs)

\* C4: get_default_printer returns Some(r) only if r's name equals, unit for
\* unit, the identifier the native default-printer query returned, and None
\* whenever no enumerated record's name equals that identifier.
C4_DefaultMatchesWholeName ==
    \A t \in Threads :
        Returned(t, "get_default_printer") =>
            LET ids == en[t].defIds
                k == Len(ids)
            IN  /\ res[t].default.some => res[t].default.name = ids[k]
                /\ (\A i \in 1..k : heap.live[res[t].slice.ptr].recs[i] # ids[i])
                      => ~res[t].default.some

\* C9: when the first native call of enum_printers reports a required size
\* of zero, enum_printers returns an empty sequence, not an error, allocates
\* nothing and makes no second native call.
C9_ZeroSizeGivesEmpty ==
    \A t \in Threads :
        en[t].calls # <<>> /\ en[t].calls[1].needed = 0 =>
            /\ Len(en[t].calls) = 1
            /\ en[t].allocs = <<>>
            /\ pc[t] # "aborted"
            /\ Returned(t, "enum_printers") => res[t].slice.len = 0

\* C11: once the caller has passed the sequence enum_printers returned to
\* free(), every buffer that enumeration allocated has been released exactly
\* once and none is still allocated.
C11_EnumBuffersFreedOnce ==
    \A t \in Threads :
        Returned(t, "free") =>
            \A b \in Range(en[t].allocs) : heap.frees[b] = 1 /\ b \notin Live(heap)

\* The text of one name slot: the units before its first terminator, all of
\* them when it has none.
SlotText(slot) == SubSeq(slot, 1, ScanLen(slot, 1))

\* The three queries of a probe all returned the same count.
FullSuccess(c) ==
    /\ Len(c) = 3
    /\ c[1].result >= 0
    /\ c[2].result = c[1].result
    /\ c[3].result = c[1].result

\* C12: when the count query, the id query and the name query return the
\* same n >= 0, get_device_capabilities returns bin_count = n and n bin
\* names, the i-th being the text of the i-th slot the driver wrote.
C12_FullSuccessDecodesEverySlot ==
    [][\A t \in Threads :
          pc[t] = "probe_names" /\ pc'[t] = "probe_ret" /\ FullSuccess(pr'[t].calls)
             => LET ret == pr'[t].ret
                    n == pr'[t].calls[1].result
                IN  /\ ret.some
                    /\ ret.bin_count = n
                    /\ Len(ret.bin_names) = n
                    /\ \A i \in 1..n : ret.bin_names[i] = SlotText(devNames.slots[i])]_vars

\* C13: when the count query and the id query return n >= 0 and the name
\* query returns another count, get_device_capabilities returns, and what it
\* returns is Some with bin_count = n and no bin names.
NameMismatch(c) ==
    /\ Len(c) = 3
    /\ c[1].result >= 0
    /\ c[2].result = c[1].result
    /\ c[3].result # c[1].result

C13_NameMismatchKeepsCount ==
    \A t \in Threads :
        NameMismatch(pr[t].calls) =>
            /\ pc[t] # "aborted"
            /\ pr[t].ret = [some |-> TRUE, bin_count |-> pr[t].calls[1].result,
                            bin_names |-> <<>>]

\* C14: every decoded bin name is made of units of its own slot only: it is
\* the start of that slot, it stops at the slot's first terminator or at the
\* slot's end, and it holds nothing of the next slot or of memory behind the
\* name buffer; an empty slot gives the empty string.
C14_SlotsDecodedIndependently ==
    [][\A t \in Threads :
          pc[t] = "probe_names" /\ pc'[t] = "probe_ret" =>
              \A i \in DOMAIN pr'[t].ret.bin_names :
                  LET name == pr'[t].ret.bin_names[i]
                      slot == devNames.slots[i]
                  IN  /\ Len(name) <= SlotWidth
                      /\ name = SubSeq(slot, 1, Len(name))
                      /\ \A k \in DOMAIN name : name[k] \notin {Terminator, GarbageUnit}
                      /\ Len(name) < SlotWidth => slot[Len(name) + 1] = Terminator
                      /\ slot[1] = Terminator => name = <<>>]_vars

\* C17: enum_printers makes at most two native calls and at most two
\* allocations, and once called it returns (or stops at the fault of C9),
\* whatever the spooler answers.
C17_EnumEndsWithinTwoCalls ==
    /\ [](\A t \in Threads : Len(en[t].calls) <= MaxAttempts
                             /\ Len(en[t].allocs) <= MaxAttempts)
    /\ \A t \in Threads :
          (pc[t] = "enum_call") ~> (pc[t] \notin {"enum_call", "enum_ret"})

C17_Witness ==
    /\ pc[1] = "enum_ret"
    /\ Len(en[1].calls) = 2
    /\ Len(en[1].allocs) = 2
    /\ en[1].calls[2].needed > en[1].calls[1].needed

\* C18: at every native call of enum_printers the Name argument, when not
\* null, points at a string that has not been released, and the buffer
\* argument, when not null, is the buffer allocated last, still allocated,
\* of the size passed as cbBuf.
C18_NativeArgumentsAreLive ==
    [][\A t \in Threads :
          pc[t] = "enum_call" /\ Len(en'[t].calls) = Len(en[t].calls) + 1 =>
              LET e == en[t]
              IN  /\ e.name_ptr # "released"
                  /\ e.buffer_ptr # Null =>
                        /\ e.buffer_ptr \in Live(heap)
                        /\ e.allocs # <<>>
                        /\ e.buffer_ptr = e.allocs[Len(e.allocs)]
                        /\ heap.live[e.buffer_ptr].size = e.bytes_needed]_vars

\* C15: a capability call repeated on a device whose driver state has not
\* changed returns what the first call returned, and a returned call leaves
\* no buffer allocated.
C15_RepeatedProbeAgrees ==
    \A t \in Threads :
        pc[t] = "idle" /\ op[t] \in ProbeCalls =>
            /\ Live(heap) = {}
            /\ res[t].prev.op = op[t] =>
                  /\ res[t].caps = res[t].prev.caps
                  /\ res[t].bin_count = res[t].prev.bin_count
                  /\ res[t].bin_names = res[t].prev.bin_names

\* C16: whatever the interleaving, a thread's call passes to the native
\* function only buffers that call allocated, as output buffer or behind the
\* Name pointer, and releases only buffers its own calls allocated.
Owns(t, b) == b = Null \/ (b \in Live(heap) /\ heap.live[b].owner = t)
LastOf(s) == s[Len(s)]

C16_ThreadsUseDisjointBuffers ==
    [][\A t \in Threads :
          /\ pc[t] = "enum_call" /\ Len(en'[t].calls) = Len(en[t].calls) + 1 =>
                /\ Owns(t, LastOf(en'[t].calls).buf)
                /\ Owns(t, LastOf(en'[t].calls).name_ref.buf)
          /\ Len(pr'[t].calls) = Len(pr[t].calls) + 1 =>
                Owns(t, LastOf(pr'[t].calls).out)
          /\ pr'[t] # pr[t] \/ held'[t] # held[t] =>
                \A b \in Live(heap) \ Live(heap') : heap.live[b].owner = t]_vars

====
